---------------------------- MODULE Spec2Model ----------------------------
(***************************************************************************)
(* Model of synapse/media/media_storage.py: MediaStorage (store_file /     *)
(* store_into_file, fetch_media, ensure_media_is_in_local_cache) over a    *)
(* local media directory and an ordered list of storage providers.         *)
(*                                                                         *)
(* Coroutines run on one reactor thread: each action below is the code of  *)
(* one coroutine from one suspension point (await) to the next.  Several   *)
(* operations may be in flight at once and interleave at those points.     *)
(*                                                                         *)
(* The local file system is a map from relative path to file.  open(.,     *)
(* "wb") creates or truncates the file at the path; os.remove unlinks it   *)
(* (and raises FileNotFoundError when nothing is there); a handle that was *)
(* open on an unlinked file keeps writing to the unlinked file, which no   *)
(* path reaches any more ("orphan").                                       *)
(***************************************************************************)
EXTENDS Integers, Sequences, FiniteSets, TLC

\* Number of operations that can be in flight at the same time.
NumProcs == 2
\* Number of operations started in one behaviour.
MaxOps == 2
\* Number of configured storage providers (self.storage_providers).
NumProviders == 2

Procs == 1..NumProcs
Providers == 1..NumProviders

-----------------------------------------------------------------------------
(* FileInfo and the path resolver                                          *)

NoThumbnail == [width |-> 0, height |-> 0, type |-> "", method |-> ""]
Thumb32 == [width |-> 32, height |-> 32, type |-> "image/png", method |-> "crop"]

\* A local original and a thumbnail of remote media.
LocalOriginal ==
    [server_name |-> "", file_id |-> "abc", url_cache |-> FALSE,
     thumbnail |-> NoThumbnail]
RemoteThumbnail ==
    [server_name |-> "remote.org", file_id |-> "abc", url_cache |-> FALSE,
     thumbnail |-> Thumb32]
FileInfos == {LocalOriginal, RemoteThumbnail}

HasThumbnail(fi) == fi.thumbnail # NoThumbnail
HasServerName(fi) == fi.server_name # ""

RelPath(ns, server, id, t, method) ==
    [ns |-> ns, server_name |-> server, file_id |-> id, width |-> t.width,
     height |-> t.height, type |-> t.type, method |-> method]

\* MediaStorage._file_info_to_path
FileInfoToPath(fi) ==
    IF fi.url_cache
    THEN IF HasThumbnail(fi)
         THEN RelPath("url_cache_thumbnails", "", fi.file_id, fi.thumbnail,
                      fi.thumbnail.method)
         ELSE RelPath("url_cache", "", fi.file_id, NoThumbnail, "")
    ELSE IF HasServerName(fi)
    THEN IF HasThumbnail(fi)
         THEN RelPath("remote_thumbnail", fi.server_name, fi.file_id,
                      fi.thumbnail, fi.thumbnail.method)
         ELSE RelPath("remote_content", fi.server_name, fi.file_id,
                      NoThumbnail, "")
    ELSE IF HasThumbnail(fi)
    THEN RelPath("local_thumbnails", "", fi.file_id, fi.thumbnail,
                 fi.thumbnail.method)
    ELSE RelPath("local_content", "", fi.file_id, NoThumbnail, "")

\* filepaths.remote_media_thumbnail_rel_legacy as called by fetch_media and
\* ensure_media_is_in_local_cache: the key omits the method.
LegacyPath(fi) ==
    RelPath("remote_thumbnail", fi.server_name, fi.file_id, fi.thumbnail, "")


\* The condition guarding the legacy fallback.
HasLegacy(fi) == HasThumbnail(fi) /\ HasServerName(fi)

\* Mutant: fetch_media without the legacy fallback.
CandidatePathsPrimaryOnly(fi) == <<FileInfoToPath(fi)>>

\* Mutant: the legacy path is put before the primary path.
CandidatePathsLegacyFirst(fi) ==
    IF HasLegacy(fi) THEN <<LegacyPath(fi), FileInfoToPath(fi)>>
    ELSE <<FileInfoToPath(fi)>>

\* fetch_media: paths = [primary] (+ [legacy])
CandidatePaths(fi) ==
    IF HasLegacy(fi) THEN <<FileInfoToPath(fi), LegacyPath(fi)>>
    ELSE <<FileInfoToPath(fi)>>

Paths == {FileInfoToPath(fi) : fi \in FileInfos}
             \cup {LegacyPath(fi) : fi \in {g \in FileInfos : HasLegacy(g)}}

\* os.path.dirname of the local path.
Dirname(path) == [path EXCEPT !.width = 0, !.height = 0, !.type = "", !.method = ""]

-----------------------------------------------------------------------------
(* File contents                                                           *)

\* The byte strings callers store.
Sources == {<<1, 2>>, <<3>>}
\* The content of objects that exist before the process starts.
OldData == <<4>>

NoFile == [exists |-> FALSE, data |-> <<>>]
EmptyFile == [exists |-> TRUE, data |-> <<>>]
NoObject == [has |-> FALSE, data |-> <<>>, by |-> 0]


\* Mutant: the bytes written are lost.
WriteLost(old, src) == old

\* A write of src at offset 0 of a file holding old.
WriteAt0(old, src) ==
    IF Len(old) > Len(src) THEN src \o SubSeq(old, Len(src) + 1, Len(old))
    ELSE src

\* The read positions a source may be at when it is handed to store_file.
Positions(src) == 0..Len(src)

\* Mutant: the source is read from where it stands.
SeekNone(pos) == pos

\* source.seek(0): the position the source is read from.
Seek0(pos) == 0

\* shutil.copyfileobj(source, dest): the bytes from the source's position to
\* its end.
CopyFileObj(src, pos) == SubSeq(src, pos + 1, Len(src))

\* _write_file_synchronously(source, dest): the bytes written to dest for a
\* source standing at pos.
WriteFileSynchronously(src, pos) == CopyFileObj(src, Seek0(pos))

-----------------------------------------------------------------------------
(* State                                                                   *)

VARIABLES
    disk,       \* local media directory: relative path -> file
    dirs,       \* directories that exist under the local media directory
    backend,    \* provider -> relative path -> object held by the provider
    ops,        \* slot -> the operation running (or last run) in the slot
    started,    \* number of operations started so far
    resp,       \* slot -> the responder handed out or consumed in the slot
    rfw         \* a ReadableFileWrapper.write_chunks_to call

\* The state of MediaStorage's operations, and the state of the objects
\* that outlive or stand beside them.
aux == <<resp, rfw>>
vars == <<disk, dirs, backend, ops, started, resp, rfw>>

\* No responder: nothing was handed out in the slot.
NoResponder ==
    [kind |-> "none", path |-> RelPath("", "", "", NoThumbnail, ""),
     open_file |-> "none", released |-> 0, phase |-> "none", how |-> ""]

\* No write_chunks_to call.
NoReader == [pc |-> "none", len |-> 0, offset |-> 0, chunks |-> <<>>, trace |-> <<>>]

NoPath == RelPath("", "", "", NoThumbnail, "")
NoResult == [kind |-> "none", path |-> NoPath, provider |-> 0]

\* An empty slot.  Besides the coroutine's locals (file_info, source and
\* the read position pos the source is at when passed in, fh, verdict, idx,
\* pidx, res) a slot records what the operation did: the calls
\* it made on providers (log), the exception first raised (raised) and the
\* one its caller got (error), what it returned (result), the paths that
\* existed locally when it was called (atStart), whether another operation
\* that writes the same local path was in flight at some moment of its run
\* (shared), and what ran in the slot just before (prev).
IdleOp ==
    [kind |-> "idle", pc |-> "idle", file_info |-> LocalOriginal,
     source |-> <<>>, pos |-> 0, fh |-> "none", verdict |-> "none", idx |-> 0,
     pidx |-> 0, res |-> <<>>, log |-> <<>>, raised |-> "", error |-> "",
     removeErr |-> FALSE, cleanup |-> FALSE, failedAt |-> "",
     shared |-> FALSE,
     result |-> NoResult, atStart |-> {},
     prev |-> [kind |-> "idle", pc |-> "idle", file_info |-> LocalOriginal,
               source |-> <<>>, result |-> NoResult]]

PathOf(o) == FileInfoToPath(o.file_info)

Free(p) == ops[p].pc \in {"idle", "done", "failed"}
InFlight(p) == ~Free(p)
\* A new operation takes the lowest free slot (slots are interchangeable).
CanStart(p) ==
    /\ started < MaxOps
    /\ Free(p)
    /\ \A q \in Procs : q < p => ~Free(q)

NewOp(p, kind, fi) ==
    [IdleOp EXCEPT !.kind = kind, !.file_info = fi,
                   !.atStart = {c \in Paths : disk[c].exists},
                   !.prev = [kind |-> ops[p].kind, pc |-> ops[p].pc,
                             file_info |-> ops[p].file_info,
                             source |-> ops[p].source,
                             result |-> ops[p].result]]

\* The slots after the operation in slot p became o.  The record of an
\* operation that has returned is kept until the next step of any other
\* operation: its caller has the result by then.
Upd(p, o) ==
    [q \in Procs |->
        IF q = p THEN o
        ELSE IF ops[q].pc \in {"done", "failed"} THEN IdleOp
        ELSE ops[q]]

\* An operation that writes a local file and is in flight.
Writes(o) == o.kind \in {"store", "ensure"} /\ o.pc \notin {"idle", "done", "failed"}

\* The slots os after the operation in slot p was started: it and the
\* operations in flight that write the same local path are marked shared.
Overlap(os, p) ==
    LET others == {q \in Procs \ {p} :
                      Writes(os[q]) /\ PathOf(os[q]) = PathOf(os[p])}
    IN  IF Writes(os[p]) /\ others # {}
        THEN [q \in Procs |->
                 IF q = p \/ q \in others THEN [os[q] EXCEPT !.shared = TRUE]
                 ELSE os[q]]
        ELSE os

\* An object on a provider carries the slot of the operation that stored it
\* (by) while that operation's record is kept; 0 otherwise.
Untagged(bk, p) ==
    [b \in Providers |-> [c \in Paths |->
        IF bk[b][c].by = p THEN [bk[b][c] EXCEPT !.by = 0] ELSE bk[b][c]]]

Call(ev, b, path) == [ev |-> ev, provider |-> b, path |-> path, out |-> ""]
Ret(ev, b, path, out) == [ev |-> ev, provider |-> b, path |-> path, out |-> out]

\* The objects that may exist before the process starts: a legacy-named
\* thumbnail on local disk, and copies of the remote thumbnail (under either
\* name) on any provider.
InitObject(h) == IF h THEN [has |-> TRUE, data |-> OldData, by |-> 0] ELSE NoObject

Init ==
    /\ \E legacy \in BOOLEAN :
         /\ disk = [c \in Paths |->
                      IF legacy /\ c = LegacyPath(RemoteThumbnail)
                      THEN [exists |-> TRUE, data |-> OldData] ELSE NoFile]
         /\ dirs = IF legacy THEN {Dirname(LegacyPath(RemoteThumbnail))} ELSE {}
    /\ \E holds \in [Providers -> SUBSET {FileInfoToPath(RemoteThumbnail),
                                          LegacyPath(RemoteThumbnail)}] :
         backend = [b \in Providers |-> [c \in Paths |-> InitObject(c \in holds[b])]]
    /\ ops = [p \in Procs |-> IdleOp]
    /\ started = 0
    /\ resp = [p \in Procs |-> NoResponder]
    /\ rfw = NoReader

-----------------------------------------------------------------------------
(* Write path: store_file / store_into_file                                *)

\* os.makedirs(dirname, exist_ok=True)
Makedirs(ds, path) == ds \cup {Dirname(path)}

\* Mutant: the file is opened without truncation (mode "r+b").
OpenKeepsContent(d, path) ==
    IF d[path].exists THEN d ELSE [d EXCEPT ![path] = EmptyFile]

\* open(fname, "wb"): the file is created, or truncated when it exists.
OpenWb(d, path) == [d EXCEPT ![path] = EmptyFile]


\* Mutant: the cleanup leaves the file in place.
OsRemoveKeeps(d, path) == [ok |-> d[path].exists, disk |-> d]

\* os.remove(fname): unlinks the file; FileNotFoundError when there is none.
OsRemove(d, path) == [ok |-> d[path].exists, disk |-> [d EXCEPT ![path] = NoFile]]

\* Handles that were open on the file at path lose their link to the path.
Orphaned(os, path) ==
    [q \in Procs |->
        IF os[q].fh = "open" /\ PathOf(os[q]) = path
        THEN [os[q] EXCEPT !.fh = "orphan"] ELSE os[q]]


\* Mutant: cancellation is not an Exception, so the handler lets it pass.
CaughtUnlessCancelled(e) == e # "CancelledError"

\* `except Exception as e`: every failure modelled here is an Exception
\* (twisted.internet.defer.CancelledError included).
CaughtByExcept(e) == TRUE


\* Mutant: the error of a failed os.remove replaces the one being handled.
ReRaiseMasked(e, removeFailed) == IF removeFailed THEN "FileNotFoundError" ELSE e

\* try: os.remove(fname) / except Exception: pass / raise e from None
ReRaise(e, removeFailed) == e


\* Mutant: the verdict is ignored.
IsSpamNever(v) == FALSE

\* spam_check != NOT_SPAM
IsSpam(v) == v # "NOT_SPAM"

\* The exception handler of store_into_file, run for exception e raised at
\* suspension point `at` of the operation in slot p, whose record is o0 at
\* that point: the local file is closed, then removed if the handler
\* catches e (caught), and e is raised to the caller.  bk is the providers'
\* state.
FailWith(p, o0, e, at, bk, caught) ==
    LET path == PathOf(o0)
        rm == IF caught THEN OsRemove(disk, path) ELSE [ok |-> TRUE, disk |-> disk]
        o == [o0 EXCEPT !.pc = "failed", !.fh = "closed", !.raised = e,
                        !.error = ReRaise(e, ~rm.ok),
                        !.removeErr = ~rm.ok, !.cleanup = caught,
                        !.failedAt = at]
    IN  /\ disk' = rm.disk
        /\ ops' = IF caught /\ rm.ok THEN Orphaned(Upd(p, o), path)
                  ELSE Upd(p, o)
        /\ backend' = bk
        /\ UNCHANGED <<dirs, started>>

\* Mutant: the provider loop runs outside the try block.
FailOutsideTry(p, o0, e, at, bk) ==
    FailWith(p, o0, e, at, bk, at # "storing" /\ CaughtByExcept(e))

\* The whole of store_into_file's body is inside the try block.
Fail(p, o0, e, at, bk) == FailWith(p, o0, e, at, bk, CaughtByExcept(e))

\* store_file up to its first await: the path is resolved, the directory
\* made, the file opened for writing (created or truncated), and the copy
\* handed to a worker thread.
StoreStart(p, fi, src) ==
    /\ CanStart(p)
    /\ LET path == FileInfoToPath(fi) IN
         /\ dirs' = Makedirs(dirs, path)
         /\ disk' = OpenWb(disk, path)
         /\ \E pos \in Positions(src) :
              ops' = Overlap(Upd(p,
                      [NewOp(p, "store", fi) EXCEPT !.pc = "copying",
                                                     !.source = src,
                                                     !.pos = pos,
                                                     !.fh = "open"]), p)
    /\ started' = started + 1
    /\ backend' = Untagged(backend, p)

\* _write_file_synchronously has copied the source, which then stands at
\* its end; the `with open` block
\* exits and closes the file; the spam check is called and awaited.
CopyDone(p) ==
    /\ ops[p].kind = "store" /\ ops[p].pc = "copying"
    /\ LET path == PathOf(ops[p]) IN
         disk' = IF ops[p].fh = "open"
                 THEN [disk EXCEPT ![path].data =
                          WriteAt0(@, WriteFileSynchronously(ops[p].source,
                                                             ops[p].pos))]
                 ELSE disk
    /\ ops' = Upd(p, [ops[p] EXCEPT !.pc = "checking", !.fh = "closed",
                                    !.pos = Len(ops[p].source)])
    /\ UNCHANGED <<dirs, backend, started>>

\* An exception is raised inside the handle (the copy fails).
BodyRaise(p) ==
    /\ ops[p].kind = "store" /\ ops[p].pc = "copying"
    /\ Fail(p, ops[p], "IOError", "copying", backend)


\* Mutants: replication starts at the second provider; every other provider
\* is skipped.
FirstProviderSkipped == 1 + 1
NextProviderSkipping(i) == i + 2
\* Mutant: the provider just called is called again.
NextProviderRepeats(i) == i

\* The first provider whose store_file is to be called, then the next.
FirstProvider == 1
NextProvider(i) == i + 1

\* check_media_file_for_spam returns verdict v.
SpamVerdict(p, v) ==
    /\ ops[p].kind = "store" /\ ops[p].pc = "checking"
    /\ IF IsSpam(v)
       THEN Fail(p, [ops[p] EXCEPT !.verdict = v], "SpamMediaException",
                 "checking", backend)
       ELSE /\ ops' = Upd(p, [ops[p] EXCEPT
                  !.verdict = v,
                  !.pc = IF FirstProvider \in Providers THEN "storing" ELSE "done",
                  !.idx = FirstProvider,
                  !.log = IF FirstProvider \in Providers
                             THEN <<Call("store", FirstProvider, PathOf(ops[p]))>>
                             ELSE <<>>,
                  !.result = IF FirstProvider \in Providers THEN NoResult
                                ELSE [kind |-> "path", path |-> PathOf(ops[p]),
                                      provider |-> 0]])
            /\ UNCHANGED <<disk, dirs, backend, started>>



\* What provider b holds after storing the local file at path for the
\* operation in slot p.
Stored(bk, b, path, p) ==
    [bk EXCEPT ![b][path] = [has |-> TRUE, data |-> disk[path].data, by |-> p]]

\* provider.store_file(path, file_info) returns (ok) or raises.  A provider
\* copies the file from the local media directory, so it cannot succeed when
\* no file is there.
StoreFileReturn(p, ok) ==
    /\ ops[p].kind = "store" /\ ops[p].pc = "storing"
    /\ LET b == ops[p].idx
           path == PathOf(ops[p])
       IN IF ok
          THEN /\ disk[path].exists
               /\ backend' = Stored(backend, b, path, p)
               /\ LET log1 == Append(ops[p].log, Ret("stored", b, path, "ok")) IN
                  IF NextProvider(b) \in Providers
                  THEN ops' = Upd(p, [ops[p] EXCEPT
                          !.idx = NextProvider(b),
                          !.log = Append(log1, Call("store", NextProvider(b), path))])
                  ELSE ops' = Upd(p, [ops[p] EXCEPT
                          !.pc = "done",
                          !.log = log1,
                          !.result = [kind |-> "path", path |-> path, provider |-> 0]])
               /\ UNCHANGED <<disk, dirs, started>>
          ELSE Fail(p, [ops[p] EXCEPT !.log = Append(@, Ret("stored", b, path, "raise"))],
                    "StoreError", "storing", backend)

\* The caller is cancelled while the operation is suspended: CancelledError
\* is raised at the await.  A provider call that was in flight may or may
\* not have taken effect.
Cancel(p) ==
    /\ ops[p].kind = "store" /\ ops[p].pc \in {"copying", "checking", "storing"}
    /\ \E took \in BOOLEAN :
         /\ took => ops[p].pc = "storing" /\ disk[PathOf(ops[p])].exists
         /\ Fail(p, ops[p], "CancelledError", ops[p].pc,
                 IF took THEN Stored(backend, ops[p].idx, PathOf(ops[p]), p)
                 ELSE backend)


-----------------------------------------------------------------------------
(* Read path: fetch_media                                                  *)

\* An exception leaves fetch_media or ensure_media_is_in_local_cache:
\* neither has a handler, so it reaches the caller as raised.
Raise(p, o0, e, at) ==
    /\ ops' = Upd(p,
                 [o0 EXCEPT !.pc = "failed", !.raised = e, !.error = e,
                            !.failedAt = at])
    /\ UNCHANGED <<disk, dirs>>


\* Mutant: the test for a local file never succeeds.
PathExistsNever(d, path) == FALSE

\* os.path.exists(local_path)
PathExists(d, path) == d[path].exists

\* Mutant: only the primary path is looked up locally.
LocalLookupPrimaryOnly(paths, i) == IF disk[paths[1]].exists THEN 1 ELSE 0

\* `for path in paths: if os.path.exists(local_path)`: the index of the
\* first candidate that exists on local disk from index i on, 0 when none.
RECURSIVE LocalLookup(_, _)
LocalLookup(paths, i) ==
    IF i > Len(paths) THEN 0
    ELSE IF PathExists(disk, paths[i]) THEN i
    ELSE LocalLookup(paths, i + 1)

\* What provider b answers to fetch(path, file_info).
ProviderFetch(b, path) == backend[b][path]

Done(p, o0, kind, path, b) ==
    /\ ops' = Upd(p,
                 [o0 EXCEPT !.pc = "done",
                            !.result = [kind |-> kind, path |-> path, provider |-> b]])
    /\ UNCHANGED <<disk, dirs>>

\* fetch_media up to its first await: the local lookup over the candidate
\* paths, then the first provider's fetch is called.
FetchStart(p, fi) ==
    /\ CanStart(p)
    /\ started' = started + 1
    /\ backend' = Untagged(backend, p)
    /\ LET paths == CandidatePaths(fi)
           hit == LocalLookup(paths, 1)
           o == NewOp(p, "fetch", fi)
       IN IF hit > 0
          THEN Done(p, o, "local", paths[hit], 0)
          ELSE IF FirstProvider \in Providers
          THEN /\ ops' = Upd(p,
                            [o EXCEPT !.pc = "fetching", !.idx = FirstProvider,
                                      !.pidx = 1,
                                      !.log = <<Call("fetch", FirstProvider, paths[1])>>])
               /\ UNCHANGED <<disk, dirs>>
          ELSE Done(p, o, "absent", NoPath, 0)

\* provider.fetch(path, file_info) returns a Responder or None, or raises.
FetchReturn(p, raises) ==
    /\ ops[p].kind = "fetch" /\ ops[p].pc = "fetching"
    /\ UNCHANGED <<backend, started>>
    /\ LET paths == CandidatePaths(ops[p].file_info)
           b == ops[p].idx
           i == ops[p].pidx
           res == ProviderFetch(b, paths[i])
           out == IF raises THEN "raise" ELSE IF res.has THEN "found" ELSE "none"
           o == [ops[p] EXCEPT !.log = Append(@, Ret("fetched", b, paths[i], out))]
       IN IF raises THEN Raise(p, o, "FetchError", "fetching")
          ELSE IF res.has THEN Done(p, o, "backend", paths[i], b)
          ELSE IF i < Len(paths)
          THEN /\ ops' = Upd(p,
                            [o EXCEPT !.pidx = i + 1,
                                      !.log = Append(@, Call("fetch", b, paths[i + 1]))])
               /\ UNCHANGED <<disk, dirs>>
          ELSE IF NextProvider(b) \in Providers
          THEN /\ ops' = Upd(p,
                            [o EXCEPT !.idx = NextProvider(b), !.pidx = 1,
                                      !.log = Append(@, Call("fetch", NextProvider(b),
                                                             paths[1]))])
               /\ UNCHANGED <<disk, dirs>>
          ELSE Done(p, o, "absent", NoPath, 0)

-----------------------------------------------------------------------------
(* Cache population: ensure_media_is_in_local_cache                        *)

\* ensure_media_is_in_local_cache up to its first await.
EnsureStart(p, fi) ==
    /\ CanStart(p)
    /\ started' = started + 1
    /\ backend' = Untagged(backend, p)
    /\ LET path == FileInfoToPath(fi)
           o == NewOp(p, "ensure", fi)
       IN IF PathExists(disk, path)
          THEN /\ Done(p, o, "path", path, 0)
          ELSE IF HasLegacy(fi) /\ PathExists(disk, LegacyPath(fi))
          THEN /\ Done(p, o, "path", LegacyPath(fi), 0)
          ELSE /\ dirs' = Makedirs(dirs, path)
               /\ UNCHANGED disk
               /\ IF FirstProvider \in Providers
                  THEN ops' = Overlap(Upd(p,
                                 [o EXCEPT !.pc = "efetching", !.idx = FirstProvider,
                                           !.log = <<Call("fetch", FirstProvider, path)>>]), p)
                  ELSE ops' = Upd(p,
                                 [o EXCEPT !.pc = "failed", !.raised = "NotFoundError",
                                           !.error = "NotFoundError",
                                           !.failedAt = "start"])

\* Mutant: the local file is opened before the response is tested.
OpenBeforeCheck(d, path, has) == OpenWb(d, path)

\* `if res: ... open(local_path, "wb")`: the local file is opened only for a
\* provider that returned content.
OpenForResponse(d, path, has) == IF has THEN OpenWb(d, path) ELSE d

\* provider.fetch(path, file_info) returns or raises; on content the local
\* file is opened for writing and the content streamed into it.
EnsureFetchReturn(p, raises) ==
    /\ ops[p].kind = "ensure" /\ ops[p].pc = "efetching"
    /\ UNCHANGED <<backend, started>>
    /\ LET path == PathOf(ops[p])
           b == ops[p].idx
           res == ProviderFetch(b, path)
           out == IF raises THEN "raise" ELSE IF res.has THEN "found" ELSE "none"
           o == [ops[p] EXCEPT !.log = Append(@, Ret("fetched", b, path, out))]
       IN IF raises THEN Raise(p, o, "FetchError", "efetching")
          ELSE IF res.has
          THEN /\ disk' = OpenForResponse(disk, path, res.has)
               /\ ops' = Upd(p,
                            [o EXCEPT !.pc = "ewriting", !.fh = "open",
                                      !.res = res.data])
               /\ UNCHANGED dirs
          ELSE IF NextProvider(b) \in Providers
          THEN /\ ops' = Upd(p,
                            [o EXCEPT !.idx = NextProvider(b),
                                      !.log = Append(@, Call("fetch", NextProvider(b),
                                                             path))])
               /\ disk' = OpenForResponse(disk, path, res.has)
               /\ UNCHANGED dirs
          ELSE /\ ops' = Upd(p,
                            [o EXCEPT !.pc = "failed", !.raised = "NotFoundError",
                                      !.error = "NotFoundError",
                                      !.failedAt = "efetching"])
               /\ disk' = OpenForResponse(disk, path, res.has)
               /\ UNCHANGED dirs

\* res.write_to_consumer and consumer.wait() have completed; the local path
\* is returned.
EnsureWriteDone(p) ==
    /\ ops[p].kind = "ensure" /\ ops[p].pc = "ewriting"
    /\ LET path == PathOf(ops[p])
           d == IF ops[p].fh = "open"
                THEN [disk EXCEPT ![path].data = WriteAt0(@, ops[p].res)]
                ELSE disk
       IN /\ disk' = d
          /\ ops' = Upd(p, [ops[p] EXCEPT !.pc = "done", !.fh = "closed",
                                !.result = [kind |-> "path", path |-> path,
                                            provider |-> ops[p].idx]])
    /\ UNCHANGED <<dirs, backend, started>>

\* The bytes that reached the file when a write of data stopped partway.
PartialWrites(data) == {SubSeq(data, 1, k) : k \in 0..(Len(data) - 1)}

\* res.write_to_consumer or consumer.wait() raises e (the provider's stream
\* or the background write fails partway, or the caller is cancelled):
\* `with res` is left and e reaches the caller; nothing handles it.
EnsureWriteRaise(p, e) ==
    /\ ops[p].kind = "ensure" /\ ops[p].pc = "ewriting"
    /\ \E part \in PartialWrites(ops[p].res) :
         LET path == PathOf(ops[p]) IN
         disk' = IF ops[p].fh = "open"
                 THEN [disk EXCEPT ![path].data = WriteAt0(@, part)]
                 ELSE disk
    /\ ops' = Upd(p, [ops[p] EXCEPT !.pc = "failed", !.fh = "closed",
                                    !.raised = e, !.error = e,
                                    !.failedAt = "ewriting"])
    /\ UNCHANGED <<dirs, backend, started>>

\* The caller of fetch_media or ensure_media_is_in_local_cache is cancelled
\* while a provider's fetch is awaited.
CancelRead(p) ==
    /\ ops[p].pc \in {"fetching", "efetching"}
    /\ Raise(p, ops[p], "CancelledError", ops[p].pc)
    /\ UNCHANGED <<backend, started>>

WriteErrors == {"IOError", "CancelledError"}

-----------------------------------------------------------------------------
Verdicts == {"NOT_SPAM", "M_FORBIDDEN"}

Next ==
    \/ \E p \in Procs, fi \in FileInfos, src \in Sources : StoreStart(p, fi, src)
         /\ UNCHANGED aux
    \/ \E p \in Procs : CopyDone(p)
         /\ UNCHANGED aux
    \/ \E p \in Procs : BodyRaise(p)
         /\ UNCHANGED aux
    \/ \E p \in Procs, v \in Verdicts : SpamVerdict(p, v)
         /\ UNCHANGED aux
    \/ \E p \in Procs, ok \in BOOLEAN : StoreFileReturn(p, ok)
         /\ UNCHANGED aux
    \/ \E p \in Procs : Cancel(p)
         /\ UNCHANGED aux
    \/ \E p \in Procs, fi \in FileInfos : FetchStart(p, fi)
         /\ UNCHANGED aux
    \/ \E p \in Procs, raises \in BOOLEAN : FetchReturn(p, raises)
         /\ UNCHANGED aux
    \/ \E p \in Procs, fi \in FileInfos : EnsureStart(p, fi)
         /\ UNCHANGED aux
    \/ \E p \in Procs, raises \in BOOLEAN : EnsureFetchReturn(p, raises)
         /\ UNCHANGED aux
    \/ \E p \in Procs : EnsureWriteDone(p)
         /\ UNCHANGED aux
    \/ \E p \in Procs, e \in WriteErrors : EnsureWriteRaise(p, e)
         /\ UNCHANGED aux
    \/ \E p \in Procs : CancelRead(p)
         /\ UNCHANGED aux

Spec == Init /\ [][Next]_vars


\* Operations invoked one at a time: a new one starts only when none is in
\* flight.
NoneInFlight == \A q \in Procs : Free(q)

NextSeq ==
    \/ \E p \in Procs, fi \in FileInfos, src \in Sources :
         NoneInFlight /\ StoreStart(p, fi, src)
         /\ UNCHANGED aux
    \/ \E p \in Procs : CopyDone(p)
         /\ UNCHANGED aux
    \/ \E p \in Procs : BodyRaise(p)
         /\ UNCHANGED aux
    \/ \E p \in Procs, v \in Verdicts : SpamVerdict(p, v)
         /\ UNCHANGED aux
    \/ \E p \in Procs, ok \in BOOLEAN : StoreFileReturn(p, ok)
         /\ UNCHANGED aux
    \/ \E p \in Procs : Cancel(p)
         /\ UNCHANGED aux
    \/ \E p \in Procs, fi \in FileInfos : NoneInFlight /\ FetchStart(p, fi)
         /\ UNCHANGED aux
    \/ \E p \in Procs, raises \in BOOLEAN : FetchReturn(p, raises)
         /\ UNCHANGED aux
    \/ \E p \in Procs, fi \in FileInfos : NoneInFlight /\ EnsureStart(p, fi)
         /\ UNCHANGED aux
    \/ \E p \in Procs, raises \in BOOLEAN : EnsureFetchReturn(p, raises)
         /\ UNCHANGED aux
    \/ \E p \in Procs : EnsureWriteDone(p)
         /\ UNCHANGED aux
    \/ \E p \in Procs, e \in WriteErrors : EnsureWriteRaise(p, e)
         /\ UNCHANGED aux
    \/ \E p \in Procs : CancelRead(p)
         /\ UNCHANGED aux

SpecSeq == Init /\ [][NextSeq]_vars

-----------------------------------------------------------------------------
(* Responders: the FileResponder that fetch_media hands out on a local     *)
(* hit, and the provider's responder that ensure_media_is_in_local_cache   *)
(* consumes inside `with res`.                                             *)

\* FileResponder(open(local_path, "rb"))
NewFileResponder(path) ==
    [kind |-> "file", path |-> path, open_file |-> "open", released |-> 0,
     phase |-> "handed", how |-> ""]

\* The responder a provider's fetch returned, entered by `with res`.
EnteredProviderResponder(path) ==
    [kind |-> "provider", path |-> path, open_file |-> "open", released |-> 0,
     phase |-> "entered", how |-> ""]

\* FileResponder.write_to_consumer: starts the transfer of the open file;
\* it does not close it.
WriteToConsumer(r) == [r EXCEPT !.phase = "streaming"]

\* Mutant: __exit__ closes the file only when the body raised nothing.
ResponderExitOnSuccessOnly(r, how) ==
    IF how = "completed"
    THEN [r EXCEPT !.open_file = "closed", !.released = @ + 1,
                   !.phase = "exited", !.how = how]
    ELSE [r EXCEPT !.phase = "exited", !.how = how]

\* Responder.__exit__ at the end of a `with` block left in the way `how`:
\* FileResponder.__exit__ closes open_file whatever the exception
\* arguments are.
ResponderExit(r, how) ==
    [r EXCEPT !.open_file = "closed", !.released = @ + 1,
              !.phase = "exited", !.how = how]

\* The slot's previous responder, if any, has been consumed.
ResponderSettled(p) == resp[p].phase \in {"none", "exited"}

\* fetch_media, handing out a FileResponder on a local hit.
FetchStartResponder(p, fi) ==
    /\ ResponderSettled(p)
    /\ FetchStart(p, fi)
    /\ resp' = [resp EXCEPT ![p] =
                   IF ops'[p].pc = "done" /\ ops'[p].result.kind = "local"
                   THEN NewFileResponder(ops'[p].result.path)
                   ELSE NoResponder]
    /\ UNCHANGED rfw

\* The consumer enters the responder's scope (`with responder:`).
ConsumerEnter(p) ==
    /\ resp[p].phase = "handed"
    /\ resp' = [resp EXCEPT ![p].phase = "entered"]
    /\ UNCHANGED <<disk, dirs, backend, ops, started, rfw>>

\* The consumer streams the responder to a sink.
ConsumerStream(p) ==
    /\ resp[p].kind = "file" /\ resp[p].phase = "entered"
    /\ resp' = [resp EXCEPT ![p] = WriteToConsumer(@)]
    /\ UNCHANGED <<disk, dirs, backend, ops, started, rfw>>

\* The consumer leaves the scope: after streaming completed or failed, or
\* without having streamed (abandoned).
ConsumerExit(p, how) ==
    /\ resp[p].kind = "file"
    /\ \/ resp[p].phase = "streaming" /\ how \in {"completed", "failed"}
       \/ resp[p].phase = "entered" /\ how = "abandoned"
    /\ resp' = [resp EXCEPT ![p] = ResponderExit(@, how)]
    /\ UNCHANGED <<disk, dirs, backend, ops, started, rfw>>

\* ensure_media_is_in_local_cache up to its first await.
EnsureStartResponder(p, fi) ==
    /\ ResponderSettled(p)
    /\ EnsureStart(p, fi)
    /\ resp' = [resp EXCEPT ![p] = NoResponder]
    /\ UNCHANGED rfw

\* provider.fetch returns in ensure_media_is_in_local_cache: a responder is
\* entered with `with res`.
EnsureFetchReturnResponder(p, raises) ==
    /\ EnsureFetchReturn(p, raises)
    /\ resp' = [resp EXCEPT ![p] =
                   IF ops'[p].pc = "ewriting"
                   THEN EnteredProviderResponder(PathOf(ops[p])) ELSE @]
    /\ UNCHANGED rfw

\* `with res` is left after the content was written ...
EnsureWriteDoneResponder(p) ==
    /\ EnsureWriteDone(p)
    /\ resp' = [resp EXCEPT ![p] = ResponderExit(@, "completed")]
    /\ UNCHANGED rfw

\* ... or by the exception that stopped the write.
EnsureWriteRaiseResponder(p, e) ==
    /\ EnsureWriteRaise(p, e)
    /\ resp' = [resp EXCEPT ![p] =
                   ResponderExit(@, "failed")]
    /\ UNCHANGED rfw

ExitWays == {"completed", "failed", "abandoned"}

NextResponder ==
    \/ \E p \in Procs, fi \in FileInfos : FetchStartResponder(p, fi)
    \/ \E p \in Procs, raises \in BOOLEAN : FetchReturn(p, raises) /\ UNCHANGED aux
    \/ \E p \in Procs : ConsumerEnter(p)
    \/ \E p \in Procs : ConsumerStream(p)
    \/ \E p \in Procs, how \in ExitWays : ConsumerExit(p, how)
    \/ \E p \in Procs, fi \in FileInfos : EnsureStartResponder(p, fi)
    \/ \E p \in Procs, raises \in BOOLEAN : EnsureFetchReturnResponder(p, raises)
    \/ \E p \in Procs : EnsureWriteDoneResponder(p)
    \/ \E p \in Procs, e \in WriteErrors : EnsureWriteRaiseResponder(p, e)
    \/ \E p \in Procs : CancelRead(p) /\ UNCHANGED aux

SpecResponder == Init /\ [][NextResponder]_vars

-----------------------------------------------------------------------------
(* ReadableFileWrapper.write_chunks_to: the file handed to the spam        *)
(* checker is read in chunks, the reactor getting control after each.      *)
(* A file is its length; a chunk is the range of byte positions it holds.  *)

CHUNK_SIZE == 16384
\* Files of up to MaxChunks full chunks are read.
MaxChunks == 4

FileLens ==
    {c * CHUNK_SIZE + d : c \in 0..(MaxChunks - 1),
                          d \in {0, 1, 2, CHUNK_SIZE \div 2, CHUNK_SIZE - 1}}
        \cup {MaxChunks * CHUNK_SIZE}

Min(a, b) == IF a < b THEN a ELSE b

\* file.read(size) on a file of len bytes standing at offset: the bytes at
\* positions from..to (none when to < from).
FileRead(len, offset, size) ==
    [from |-> offset + 1, to |-> offset + Min(size, len - offset)]

ChunkLen(chunk) == chunk.to - chunk.from + 1

\* Mutant: the loop ends at the first chunk shorter than CHUNK_SIZE.
NotFullChunk(chunk) == ChunkLen(chunk) < CHUNK_SIZE

\* `if not chunk: break`
NotChunk(chunk) == ChunkLen(chunk) = 0

\* write_chunks_to is called: open(self.path, "rb").
InitChunks ==
    /\ disk = [c \in Paths |-> NoFile]
    /\ dirs = {}
    /\ backend = [b \in Providers |-> [c \in Paths |-> NoObject]]
    /\ ops = [p \in Procs |-> IdleOp]
    /\ started = 0
    /\ resp = [p \in Procs |-> NoResponder]
    /\ \E n \in FileLens :
         rfw = [pc |-> "reading", len |-> n, offset |-> 0, chunks |-> <<>>,
                trace |-> <<>>]

\* One turn of the loop: a chunk is read; at end of file the loop and the
\* file are left; otherwise the callback gets the chunk and the coroutine
\* sleeps for 0 seconds.
ReadChunk ==
    /\ rfw.pc = "reading"
    /\ LET chunk == FileRead(rfw.len, rfw.offset, CHUNK_SIZE) IN
         IF NotChunk(chunk)
         THEN rfw' = [rfw EXCEPT !.pc = "done"]
         ELSE rfw' = [rfw EXCEPT !.pc = "sleeping",
                                 !.offset = chunk.to,
                                 !.chunks = Append(@, chunk),
                                 !.trace = @ \o <<"callback", "yield">>]
    /\ UNCHANGED <<disk, dirs, backend, ops, started, resp>>

\* The reactor resumes the coroutine after clock.sleep(0).
SleepReturn ==
    /\ rfw.pc = "sleeping"
    /\ rfw' = [rfw EXCEPT !.pc = "reading"]
    /\ UNCHANGED <<disk, dirs, backend, ops, started, resp>>

NextChunks == ReadChunk \/ SleepReturn

\* The reactor runs every call it was asked to run later.
SpecChunks == InitChunks /\ [][NextChunks]_vars /\ WF_vars(NextChunks)

-----------------------------------------------------------------------------
(* Properties.  The record of an operation that has returned is visible in *)
(* exactly the state its return leaves, so a predicate on such a record    *)
(* and on disk/backend speaks of the moment the operation returns.         *)

StoreFailed(p) == ops[p].kind = "store" /\ ops[p].pc = "failed"
StoreDone(p) == ops[p].kind = "store" /\ ops[p].pc = "done"
StoreCalls(p) == {i \in DOMAIN ops[p].log : ops[p].log[i].ev = "store"}
\* Provider b holds a copy that the operation in slot p wrote.
HoldsCopyOf(b, p) ==
    backend[b][PathOf(ops[p])].has /\ backend[b][PathOf(ops[p])].by = p

\* C1: when a store fails because the spam check rejected the file or a
\* provider's store_file failed, no local file is at the path on return.
WriteAtomicity ==
    \A p \in Procs :
        StoreFailed(p) /\ ops[p].raised \in {"SpamMediaException", "StoreError"}
            => ~disk[PathOf(ops[p])].exists

WriteAtomicityWitness ==
    \E p \in Procs : StoreFailed(p) /\ ops[p].raised = "StoreError"
                        /\ ops[p].idx = NumProviders

\* C2: a provider's store_file is called only after the local file is closed
\* and the spam check returned NOT_SPAM; on any other verdict the operation
\* raises and calls no provider.
SafetyGate ==
    \A p \in Procs : ops[p].kind = "store" =>
        /\ StoreCalls(p) # {} => ops[p].verdict = "NOT_SPAM" /\ ops[p].fh = "closed"
        /\ ops[p].verdict \notin {"none", "NOT_SPAM"} =>
              /\ ops[p].pc = "failed"
              /\ ops[p].error = "SpamMediaException"
              /\ StoreCalls(p) = {}

SafetyGateWitness ==
    \E p \in Procs : StoreFailed(p) /\ ops[p].verdict = "M_FORBIDDEN"

\* The calls of a store that replicated to every provider, in order: each
\* provider called once with the relative path, and returned before the
\* next is called.
ExpectedStoreLog(path) ==
    [i \in 1..(2 * NumProviders) |->
        IF i % 2 = 1 THEN Call("store", (i + 1) \div 2, path)
        ELSE Ret("stored", i \div 2, path, "ok")]

\* C3: a store that succeeds has called store_file on every provider exactly
\* once, with the relative path, in list order, one after the other.
ReplicationOrder ==
    \A p \in Procs :
        StoreDone(p) => ops[p].log = ExpectedStoreLog(PathOf(ops[p]))

ReplicationOrderWitness ==
    \E p \in Procs : StoreDone(p) /\ Len(ops[p].log) = 2 * NumProviders
                        /\ NumProviders >= 2

\* C4: the caller of a failed store gets the exception that was raised,
\* also when the os.remove of the cleanup itself fails.
ErrorPropagation ==
    \A p \in Procs :
        StoreFailed(p) => ops[p].raised # "" /\ ops[p].error = ops[p].raised

ErrorPropagationWitness ==
    \E p \in Procs : StoreFailed(p) /\ ops[p].removeErr
                        /\ ops[p].error = "StoreError"

\* C5 as stated: after a failed store no copy it wrote remains, neither the
\* local file nor on any provider.
NoOrphanedData ==
    \A p \in Procs :
        StoreFailed(p) =>
            /\ ~disk[PathOf(ops[p])].exists
            /\ \A b \in Providers : ~HoldsCopyOf(b, p)

\* C5 amended: after a failed store the local file is gone and no copy is on
\* a provider whose store_file was not called; what was stored on the
\* providers called before the failure is not removed.
NoOrphanBeyondCalled ==
    \A p \in Procs :
        StoreFailed(p) =>
            /\ ~disk[PathOf(ops[p])].exists
            /\ \A b \in Providers :
                  HoldsCopyOf(b, p) =>
                      \E i \in StoreCalls(p) : ops[p].log[i].provider = b
            /\ \A i \in DOMAIN ops[p].log :
                  ops[p].log[i].out = "ok" =>
                      backend[ops[p].log[i].provider][PathOf(ops[p])].has

NoOrphanBeyondCalledWitness ==
    \E p \in Procs :
        /\ StoreFailed(p) /\ ops[p].raised = "StoreError"
        /\ HoldsCopyOf(1, p) /\ ~HoldsCopyOf(2, p)

Reads(p) == ops[p].kind \in {"fetch", "ensure"}
\* A thumbnail of remote media: the descriptors that have a legacy name.
IsRemoteThumbnail(fi) == fi.server_name # "" /\ fi.thumbnail # NoThumbnail
\* The local paths a read may be served from.
ReadCandidates(fi) ==
    {FileInfoToPath(fi)}
        \cup IF IsRemoteThumbnail(fi) THEN {LegacyPath(fi)} ELSE {}

\* C6: when a candidate path exists locally at the call, fetch_media returns
\* a responder over that local file and calls no provider.
ReadPrecedence ==
    \A p \in Procs :
        ops[p].kind = "fetch" /\ ReadCandidates(ops[p].file_info) \cap ops[p].atStart # {}
            => /\ ops[p].pc = "done"
               /\ ops[p].result.kind = "local"
               /\ ops[p].result.path \in
                      ReadCandidates(ops[p].file_info) \cap ops[p].atStart
               /\ FileInfoToPath(ops[p].file_info) \in ops[p].atStart
                      => ops[p].result.path = FileInfoToPath(ops[p].file_info)
               /\ ops[p].log = <<>>

ReadPrecedenceWitness ==
    \E p \in Procs :
        /\ ops[p].kind = "fetch" /\ ops[p].pc = "done"
        /\ ops[p].result.kind = "local"
        /\ \E b \in Providers : backend[b][ops[p].result.path].has

\* C7: a store cancelled at a suspension point still runs the cleanup of
\* store_into_file, and the local file is gone when CancelledError reaches
\* the caller.
CancellationCleanup ==
    \A p \in Procs :
        StoreFailed(p) /\ ops[p].raised = "CancelledError"
            => /\ ops[p].cleanup
               /\ ~disk[PathOf(ops[p])].exists
               /\ ops[p].failedAt \in {"copying", "checking", "storing"}

CancellationCleanupWitness ==
    \E p \in Procs :
        /\ StoreFailed(p) /\ ops[p].raised = "CancelledError"
        /\ ops[p].failedAt = "copying" /\ ops[p].atStart = {}

\* The read in slot p ended not-found (NotFoundError, or None from
\* fetch_media) after every provider answered None.
Exhausted(p) ==
    /\ \/ ops[p].pc = "failed" /\ ops[p].error = "NotFoundError"
       \/ ops[p].pc = "done" /\ ops[p].result.kind = "absent"
    /\ \A b \in Providers :
          \E i \in DOMAIN ops[p].log :
              ops[p].log[i].provider = b /\ ops[p].log[i].out = "none"

\* C8: a provider fetch that raises is not surfaced to the caller of
\* fetch_media or ensure_media_is_in_local_cache.
FetchFailureNonFatal ==
    \A p \in Procs :
        Reads(p) =>
            \A i \in DOMAIN ops[p].log :
                ops[p].log[i].out = "raise" => ops[p].pc # "failed"

\* What the code does instead: a provider fetch that returns None is not
\* surfaced and the next provider (or path) is tried, not-found being
\* reported only after every provider answered None; a provider fetch that
\* raises ends the operation with that exception.
FetchAbsentNonFatal ==
    \A p \in Procs :
        Reads(p) =>
            /\ \A i \in DOMAIN ops[p].log :
                  /\ ops[p].log[i].out = "raise" =>
                        /\ i = Len(ops[p].log)
                        /\ ops[p].pc = "failed" /\ ops[p].error = "FetchError"
                  /\ ops[p].log[i].out = "none" =>
                        IF i < Len(ops[p].log)
                        THEN /\ ops[p].log[i + 1].ev = "fetch"
                             /\ \/ ops[p].log[i + 1].provider = ops[p].log[i].provider + 1
                                \/ /\ ops[p].log[i + 1].provider = ops[p].log[i].provider
                                   /\ ops[p].log[i + 1].path # ops[p].log[i].path
                        ELSE Exhausted(p)
            /\ \/ ops[p].pc = "failed" /\ ops[p].error = "NotFoundError"
               \/ ops[p].pc = "done" /\ ops[p].result.kind = "absent"
               => Exhausted(p)

FetchAbsentNonFatalWitness ==
    \E p \in Procs :
        /\ ops[p].kind = "ensure" /\ ops[p].pc = "failed"
        /\ ops[p].error = "FetchError" /\ Len(ops[p].log) = 4

\* C9: ensure_media_is_in_local_cache that finds the file on no local path
\* and on provider b first (the providers before b answering None) returns
\* the primary local path, where a file with the provider's content then
\* is; the next call for the same file_info, and every call made while that
\* file is there, returns the same path and calls no provider.  (Operations
\* invoked one at a time.)
CachePopulation ==
    \A p \in Procs :
        ops[p].kind = "ensure" =>
            /\ ops[p].pc = "done" /\ ops[p].log # <<>> =>
                  LET n == Len(ops[p].log)
                      b == ops[p].log[n].provider
                      path == FileInfoToPath(ops[p].file_info)
                  IN /\ ops[p].log[n].out = "found"
                     /\ n = 2 * b
                     /\ \A i \in 1..(n - 1) :
                           /\ ops[p].log[i].provider = (i + 1) \div 2
                           /\ ops[p].log[i].ev = "fetched" => ops[p].log[i].out = "none"
                     /\ ops[p].result.kind = "path" /\ ops[p].result.path = path
                     /\ disk[path].exists
                     /\ disk[path].data = backend[b][path].data
            /\ ( /\ ops[p].prev.kind = "ensure" /\ ops[p].prev.pc = "done"
                 /\ ops[p].prev.file_info = ops[p].file_info )
                  => /\ ops[p].pc = "done"
                     /\ ops[p].result.kind = "path"
                     /\ ops[p].result.path = ops[p].prev.result.path
                     /\ ops[p].log = <<>>
            /\ FileInfoToPath(ops[p].file_info) \in ops[p].atStart
                  => /\ ops[p].pc = "done"
                     /\ ops[p].result.kind = "path"
                     /\ ops[p].result.path = FileInfoToPath(ops[p].file_info)
                     /\ ops[p].log = <<>>

CachePopulationWitness ==
    \E p \in Procs :
        /\ ops[p].kind = "ensure" /\ ops[p].pc = "done" /\ ops[p].log = <<>>
        /\ ops[p].prev.kind = "ensure" /\ ops[p].prev.pc = "done"
        /\ ops[p].prev.file_info = ops[p].file_info
        /\ ops[p].prev.result.provider = 2
        /\ ops[p].result.path = FileInfoToPath(ops[p].file_info)

\* C10: for a remote thumbnail with no local file at the primary path and
\* one at the legacy path, fetch_media returns a responder over the legacy
\* file and ensure_media_is_in_local_cache returns the legacy path; no
\* provider is called and no file appears at the primary path.
LegacyFallback ==
    \A p \in Procs :
        ( /\ Reads(p) /\ IsRemoteThumbnail(ops[p].file_info)
          /\ LegacyPath(ops[p].file_info) \in ops[p].atStart
          /\ FileInfoToPath(ops[p].file_info) \notin ops[p].atStart )
            => /\ ops[p].pc = "done"
               /\ ops[p].result.path = LegacyPath(ops[p].file_info)
               /\ ops[p].result.kind =
                      IF ops[p].kind = "fetch" THEN "local" ELSE "path"
               /\ ops[p].log = <<>>
               /\ ~disk[FileInfoToPath(ops[p].file_info)].exists

LegacyFallbackWitness ==
    \E p \in Procs :
        /\ ops[p].kind = "ensure" /\ ops[p].pc = "done"
        /\ ops[p].result.path = LegacyPath(ops[p].file_info)
        /\ ops[p].prev.kind = "fetch" /\ ops[p].prev.pc = "done"
        /\ ops[p].prev.file_info = ops[p].file_info
        /\ ops[p].prev.result.kind = "local"
        /\ ops[p].prev.result.path = LegacyPath(ops[p].file_info)
        /\ \E b \in Providers : backend[b][FileInfoToPath(ops[p].file_info)].has

-----------------------------------------------------------------------------
(* Frame and ordering properties of the read paths                         *)

\* What the providers hold, without the bookkeeping of who stored it.
Content(bk) ==
    [b \in Providers |-> [c \in Paths |-> [has |-> bk[b][c].has, data |-> bk[b][c].data]]]

\* The step is one of ensure_media_is_in_local_cache in slot p on its way to
\* NotFoundError: it leaves the operation waiting for a provider's fetch, or
\* raising NotFoundError.
NotFoundStep(p) ==
    /\ [ops'[p] EXCEPT !.shared = ops[p].shared] # ops[p]
    /\ ops'[p].kind = "ensure"
    /\ \/ ops'[p].pc = "efetching"
       \/ ops'[p].pc = "failed" /\ ops'[p].error = "NotFoundError"

\* An ensure_media_is_in_local_cache that found no local candidate when
\* called and got None from every provider.
Unsatisfiable(p) ==
    /\ ops[p].kind = "ensure" /\ ops[p].pc \in {"done", "failed"}
    /\ ReadCandidates(ops[p].file_info) \cap ops[p].atStart = {}
    /\ \A b \in Providers :
          \E i \in DOMAIN ops[p].log :
              ops[p].log[i].provider = b /\ ops[p].log[i].out = "none"

NotFoundRaised ==
    \A p \in Procs :
        Unsatisfiable(p) => ops[p].pc = "failed" /\ ops[p].error = "NotFoundError"

\* C11: ensure_media_is_in_local_cache for a file with no local candidate
\* and no provider content raises NotFoundError and changes neither local
\* files, nor directories, nor any provider.
NotFoundNoSideEffects ==
    /\ []NotFoundRaised
    /\ [][\A p \in Procs :
            NotFoundStep(p) => /\ disk' = disk
                               /\ dirs' = dirs
                               /\ Content(backend') = Content(backend)]_vars

\* C11 amended: it raises NotFoundError and changes no local file and no
\* provider; the parent directory of the primary path may have been made.
NotFoundKeepsFiles ==
    /\ []NotFoundRaised
    /\ [][\A p \in Procs :
            NotFoundStep(p) => /\ disk' = disk
                               /\ dirs \subseteq dirs'
                               /\ dirs' \subseteq Makedirs(dirs, PathOf(ops'[p]))
                               /\ Content(backend') = Content(backend)]_vars

NotFoundKeepsFilesWitness ==
    \E p \in Procs :
        /\ Unsatisfiable(p) /\ ops[p].error = "NotFoundError"
        /\ started = 1
        /\ ops[p].file_info = LocalOriginal
        /\ Dirname(PathOf(ops[p])) \in dirs

-----------------------------------------------------------------------------
(* Content written by store_file                                           *)

\* C12: wherever the source stands when store_file is called, a successful
\* store_file leaves the whole content of the source in the local file and
\* returns its path; store_file called again with the same source and
\* file_info returns the same path and leaves the same content.
\* (Operations invoked one at a time.)
RewindAndRetry ==
    \A p \in Procs :
        StoreDone(p) =>
            /\ ops[p].result.kind = "path"
            /\ ops[p].result.path = PathOf(ops[p])
            /\ disk[PathOf(ops[p])].exists
            /\ disk[PathOf(ops[p])].data = ops[p].source
            /\ ( /\ ops[p].prev.kind = "store" /\ ops[p].prev.pc = "done"
                 /\ ops[p].prev.file_info = ops[p].file_info )
                  => ops[p].result.path = ops[p].prev.result.path

RewindAndRetryWitness ==
    \E p \in Procs :
        /\ StoreDone(p)
        /\ ops[p].prev.kind = "store" /\ ops[p].prev.pc = "done"
        /\ ops[p].prev.file_info = ops[p].file_info
        /\ ops[p].prev.source = ops[p].source
        /\ Len(ops[p].source) = 2

-----------------------------------------------------------------------------
(* Provider fallback order of fetch_media                                  *)

\* The candidate paths of a read in the order stated: primary, then legacy
\* for a thumbnail of remote media.
OrderedCandidates(fi) ==
    IF IsRemoteThumbnail(fi) THEN <<FileInfoToPath(fi), LegacyPath(fi)>>
    ELSE <<FileInfoToPath(fi)>>

\* The k-th (provider, path) pair in provider-major order.
PairProvider(fi, k) == ((k - 1) \div Len(OrderedCandidates(fi))) + 1
PairPath(fi, k) == OrderedCandidates(fi)[((k - 1) % Len(OrderedCandidates(fi))) + 1]
NumPairs(fi) == NumProviders * Len(OrderedCandidates(fi))

\* C13: with no candidate path on local disk, fetch_media queries the
\* (provider, path) pairs provider by provider, the primary path before the
\* legacy one; it returns the responder of the first pair that yields one,
\* queries no pair after it, and returns None only when every pair yielded
\* nothing.
FallbackOrder ==
    \A p \in Procs :
        ops[p].kind = "fetch" /\ ReadCandidates(ops[p].file_info) \cap ops[p].atStart = {} =>
            LET fi == ops[p].file_info
                log == ops[p].log
            IN /\ Len(log) <= 2 * NumPairs(fi)
               /\ \A i \in DOMAIN log :
                     /\ log[i].provider = PairProvider(fi, (i + 1) \div 2)
                     /\ log[i].path = PairPath(fi, (i + 1) \div 2)
                     /\ log[i].ev = IF i % 2 = 1 THEN "fetch" ELSE "fetched"
                     /\ log[i].out = "found" =>
                           /\ i = Len(log)
                           /\ ops[p].pc = "done"
                           /\ ops[p].result =
                                 [kind |-> "backend", path |-> log[i].path,
                                  provider |-> log[i].provider]
                     /\ i < Len(log) /\ i % 2 = 0 => log[i].out = "none"
               /\ ops[p].pc = "done" =>
                     \/ /\ ops[p].result.kind = "backend"
                        /\ log # <<>> /\ log[Len(log)].out = "found"
                     \/ /\ ops[p].result.kind = "absent"
                        /\ Len(log) = 2 * NumPairs(fi)
                        /\ \A i \in DOMAIN log : i % 2 = 0 => log[i].out = "none"

FallbackOrderWitness ==
    \E p \in Procs :
        /\ ops[p].kind = "fetch" /\ ops[p].pc = "done"
        /\ ops[p].file_info = RemoteThumbnail
        /\ ops[p].result.kind = "backend"
        /\ ops[p].result.provider = NumProviders
        /\ ops[p].result.path = LegacyPath(RemoteThumbnail)
        /\ Len(ops[p].log) = 2 * NumPairs(RemoteThumbnail)

-----------------------------------------------------------------------------
(* Which operations change the bytes at a local path                       *)

\* C14: once a store to a path has succeeded, no later operation truncates
\* the file there or changes its bytes; it can only be deleted.  Stated for
\* the step that follows the return of the successful store.
StoredBytesKept ==
    [][\A p \in Procs :
          StoreDone(p) =>
              LET c == PathOf(ops[p]) IN
              disk[c].exists /\ disk'[c].exists => disk'[c].data = disk[c].data]_vars

\* The step is one of the operation in slot p, which may write the file at
\* c: a store to c, or an ensure_media_is_in_local_cache for c that found
\* no file at c when called and has got content from a provider.
MayWrite(p, c) ==
    /\ [ops'[p] EXCEPT !.shared = ops[p].shared] # ops[p]
    /\ PathOf(ops'[p]) = c
    /\ \/ ops'[p].kind = "store"
       \/ /\ ops'[p].kind = "ensure"
          /\ c \notin ops'[p].atStart
          /\ \E i \in DOMAIN ops'[p].log : ops'[p].log[i].out = "found"

\* C14 amended: the file at a local path is changed only by a store to that
\* same path (which truncates and rewrites it, or deletes it on failure) or
\* by an ensure_media_is_in_local_cache for that path that was called when
\* no file was there; never by fetch_media, nor by an operation on a
\* descriptor that resolves to another path.
BytesChangedByOwnPathOnly ==
    [][\A c \in Paths :
          disk'[c] # disk[c] => \E p \in Procs : MayWrite(p, c)]_vars

BytesChangedByOwnPathOnlyWitness ==
    \E p \in Procs :
        /\ StoreDone(p)
        /\ ops[p].prev.kind = "store" /\ ops[p].prev.pc = "done"
        /\ ops[p].prev.file_info = ops[p].file_info
        /\ ops[p].prev.source = <<1, 2>> /\ ops[p].source = <<3>>
        /\ disk[PathOf(ops[p])].data = <<3>>

-----------------------------------------------------------------------------
(* Release of responders                                                   *)

\* C15: the local file opened by fetch_media on a local hit and the
\* provider's responder consumed by ensure_media_is_in_local_cache are
\* released exactly once, however the scope that uses them is left:
\* streaming completed, streaming failed, or left without streaming.
ReleasedOnce ==
    \A p \in Procs :
        /\ resp[p].released <= 1
        /\ resp[p].phase = "exited" =>
              resp[p].released = 1 /\ resp[p].open_file = "closed"
        /\ resp[p].phase \in {"handed", "entered", "streaming"} =>
              resp[p].released = 0 /\ resp[p].open_file = "open"
        /\ ops[p].kind = "fetch" /\ ops[p].pc = "done" /\ ops[p].result.kind = "local"
              => resp[p].kind = "file" /\ resp[p].path = ops[p].result.path
        /\ ops[p].kind = "ensure" =>
              /\ ops[p].pc = "ewriting" => resp[p].phase = "entered"
              /\ ops[p].pc \in {"done", "failed"} /\ resp[p].kind = "provider"
                    => resp[p].phase = "exited"

ReleasedOnceWitness ==
    /\ \E p \in Procs :
          resp[p].kind = "file" /\ resp[p].phase = "exited" /\ resp[p].how = "abandoned"
    /\ \E p \in Procs :
          resp[p].kind = "provider" /\ resp[p].phase = "exited" /\ resp[p].how = "failed"

-----------------------------------------------------------------------------
(* Chunks delivered by write_chunks_to                                     *)

ChunksWellFormed ==
    /\ \A i \in DOMAIN rfw.chunks :
          /\ ChunkLen(rfw.chunks[i]) \in 1..16384
          /\ rfw.chunks[i].from = IF i = 1 THEN 1 ELSE rfw.chunks[i - 1].to + 1
          /\ rfw.chunks[i].to <= rfw.len
    /\ Len(rfw.trace) = 2 * Len(rfw.chunks)
    /\ \A i \in DOMAIN rfw.trace :
          rfw.trace[i] = IF i % 2 = 1 THEN "callback" ELSE "yield"
    /\ rfw.pc = "done" =>
          IF rfw.len = 0 THEN rfw.chunks = <<>>
          ELSE rfw.chunks # <<>> /\ rfw.chunks[Len(rfw.chunks)].to = rfw.len

\* C16: write_chunks_to calls the callback with consecutive non-empty
\* chunks of at most 16384 bytes that together are the file (no call for an
\* empty file), gives control to the reactor after each call, and ends
\* when the end of the file is reached.
ChunksDelivered == []ChunksWellFormed /\ <>(rfw.pc = "done")

ChunksDeliveredWitness ==
    /\ rfw.pc = "done" /\ rfw.len = 2 * 16384 + 1
    /\ Len(rfw.chunks) = 3 /\ ChunkLen(rfw.chunks[3]) = 1

-----------------------------------------------------------------------------
(* Replication that fails partway                                          *)

\* The providers whose store_file the store in slot p has called.
ProvidersCalled(p) == {ops[p].log[i].provider : i \in StoreCalls(p)}

\* C17: when the store_file of provider k fails, the store fails with that
\* error and the local file is deleted; the copies stored on providers
\* 1..k-1 stay and no provider is called twice; no provider after k is
\* called.  At every point the providers called are a prefix of the list.
PartialReplication ==
    \A p \in Procs :
        ops[p].kind = "store" =>
            /\ ProvidersCalled(p) = 1..Cardinality(StoreCalls(p))
            /\ Cardinality(ProvidersCalled(p)) = Cardinality(StoreCalls(p))
            /\ StoreFailed(p) /\ ops[p].raised = "StoreError" =>
                  LET k == ops[p].idx
                      path == PathOf(ops[p])
                  IN /\ ops[p].error = "StoreError"
                     /\ ~disk[path].exists
                     /\ ProvidersCalled(p) = 1..k
                     /\ ops[p].log[Len(ops[p].log)] = Ret("stored", k, path, "raise")
                     /\ \A b \in 1..(k - 1) :
                           /\ ops[p].log[2 * b] = Ret("stored", b, path, "ok")
                           /\ backend[b][path].has

PartialReplicationWitness ==
    \E p \in Procs :
        /\ StoreFailed(p) /\ ops[p].raised = "StoreError"
        /\ ops[p].idx = 2 /\ NumProviders > 2 - 1
        /\ Len(ops[p].log) = 4
        /\ backend[1][PathOf(ops[p])].data = ops[p].source

-----------------------------------------------------------------------------
(* Writers to one path                                                     *)

\* C18: a store that returns successfully finds, when it returns, a local
\* file at its path holding exactly the bytes it wrote, also when another
\* store to the same path ran interleaved with it.
WritersIsolated ==
    \A p \in Procs :
        StoreDone(p) =>
            /\ disk[PathOf(ops[p])].exists
            /\ disk[PathOf(ops[p])].data = ops[p].source

\* C18 amended: a store during whose run no other operation that writes
\* the same local path was in flight finds, when it returns successfully,
\* a local file holding exactly the bytes it wrote, whether an earlier
\* store to the path succeeded or failed and cleaned up, and whatever runs
\* interleaved with it on other paths.
WritersInTurn ==
    \A p \in Procs :
        StoreDone(p) /\ ~ops[p].shared =>
            /\ disk[PathOf(ops[p])].exists
            /\ disk[PathOf(ops[p])].data = ops[p].source

WritersInTurnWitness ==
    \E p \in Procs :
        /\ StoreDone(p) /\ ~ops[p].shared
        /\ ops[p].prev.kind = "store"
        /\ ops[p].prev.pc = "failed"
        /\ ops[p].prev.file_info = ops[p].file_info
        /\ ops[p].prev.source # ops[p].source

-----------------------------------------------------------------------------
(* Reads that meet an unfinished write                                     *)

\* C19: fetch_media returns no responder over a local file that a store is
\* still writing or has not yet got the spam verdict for.
NoUncheckedServed ==
    \A p \in Procs :
        ops[p].kind = "fetch" /\ ops[p].pc = "done" /\ ops[p].result.kind = "local" =>
            \A q \in Procs :
                ~ ( /\ ops[q].kind = "store"
                    /\ ops[q].pc \in {"copying", "checking"}
                    /\ PathOf(ops[q]) = ops[p].result.path )

\* C20: when ensure_media_is_in_local_cache fails or is cancelled after it
\* opened the primary local path for writing, no file is left at that path.
NoPartialFile ==
    \A p \in Procs :
        ( /\ ops[p].kind = "ensure" /\ ops[p].pc = "failed"
          /\ ops[p].failedAt = "ewriting" )
            => ~disk[PathOf(ops[p])].exists

-----------------------------------------------------------------------------
(* fetch_media and ensure_media_is_in_local_cache on the same state        *)

\* An ensure_media_is_in_local_cache in slot p that returned a path or raised
\* NotFoundError, called right after a fetch_media for the same file_info
\* that returned a responder or None.  With operations invoked one at a
\* time, local disk and providers are the same for the two calls.
FetchThenEnsure(p) ==
    /\ ops[p].kind = "ensure"
    /\ \/ ops[p].pc = "done"
       \/ ops[p].pc = "failed" /\ ops[p].error = "NotFoundError"
    /\ ops[p].prev.kind = "fetch" /\ ops[p].prev.pc = "done"
    /\ ops[p].prev.file_info = ops[p].file_info

\* C21: on the same local disk and providers, fetch_media returns a
\* responder exactly when ensure_media_is_in_local_cache returns a path
\* rather than raising NotFoundError.  (Operations invoked one at a time.)
ReadCacheAgreement ==
    \A p \in Procs :
        FetchThenEnsure(p) =>
            ( ops[p].prev.result.kind \in {"local", "backend"}
                <=> ops[p].pc = "done" )

=============================================================================
